---- MODULE Spec2Model ----
(***************************************************************************)
(* Model of main.py of portfolio-robot: the configuration checks, the      *)
(* per-ticker loop, fetch_stock with its retry and sleep logic, the        *)
(* scoring block, the report synthesis and the two deliveries.             *)
(*                                                                         *)
(* Python strings are modelled as sequences of one-character strings, so   *)
(* that str.strip, the substring test `"429" in error_msg` and the         *)
(* fixed-precision formatting are computed and not assumed.                *)
(* Indicator values are fixed-point integers: pegRatio in hundredths,      *)
(* returnOnEquity in thousandths, debtToEquity in tenths, so that the      *)
(* .2f / .1f renderings are exact.                                         *)
(***************************************************************************)
EXTENDS Integers, Sequences, FiniteSets, TLC

VARIABLES
    portfolio,           \* the sheet: one Ticker cell per row (line 33)
    row,                 \* number of rows the for loop of line 105 has taken
    pc,                  \* position of the single thread of control
    ticker,              \* global `ticker` (line 106)
    attempt,             \* loop variable of fetch_stock (line 55), next value to run
    info,                \* value returned by fetch_stock (line 110)
    score,               \* global `score` (line 122)
    analysis_results,    \* line 102
    successful_fetches,  \* line 103
    uncaught,            \* the exception that ended the process, or "none"
    log,                 \* observable effects of the fetch_stock call in progress or
                         \* just returned, in order
    offered,             \* what the upstream held ready at each attempt of that call
    columns,             \* portfolio.columns after the strip of line 36
    names,               \* the names bound in the module namespace
    unset,               \* the environment variables a lookup found unset
    ai_summary,          \* global `ai_summary` (lines 158, 194, 198)
    gen,                 \* what the text generator was asked and did
    sent                 \* the delivery attempts and the final print, in order

vars == <<portfolio, row, pc, ticker, attempt, info, score, analysis_results,
          successful_fetches, uncaught, log, offered, columns, names, unset,
          ai_summary, gen, sent>>

\* what the per-ticker loop and fetch_stock never assign
runVars == <<columns, names, unset, ai_summary, gen, sent>>

----------------------------------------------------------------------------
(* Bounds of the model *)

MaxRows == 2

(* Program constants *)

MaxRetries == 3
PacingLo == 3
PacingHi == 7
EmptyDelay == 10
RateBackoffBase == 15
ErrorDelay == 5
PegLimit == 150
RoeLimit == 150
DeLimit == 1000
MaxScoreIndex == 3

----------------------------------------------------------------------------
(* Strings *)

RECURSIVE SeqsUpTo(_, _)
SeqsUpTo(S, n) ==
    IF n = 0 THEN {<<>>}
    ELSE LET prev == SeqsUpTo(S, n - 1)
         IN  prev \cup {Append(s, c) : s \in {p \in prev : Len(p) = n - 1}, c \in S}

\* the Ticker cells a row may hold: empty, blanks only, plain, padded
Cells == {<<>>, <<" ">>, <<"A">>, <<" ", "B", " ">>, <<"A", "B">>}
Sheets == SeqsUpTo(Cells, MaxRows)

IsSpace(c) == c = " "

RECURSIVE LStrip(_)
LStrip(s) == IF s # <<>> /\ IsSpace(Head(s)) THEN LStrip(Tail(s)) ELSE s

RECURSIVE RStrip(_)
RStrip(s) ==
    IF s # <<>> /\ IsSpace(s[Len(s)]) THEN RStrip(SubSeq(s, 1, Len(s) - 1)) ELSE s

Strip(s) == RStrip(LStrip(s))

Contains(s, sub) ==
    \E i \in 1..(Len(s) - Len(sub) + 1) : SubSeq(s, i, i + Len(sub) - 1) = sub

Code429 == <<"4", "2", "9">>

NameErrorMsg ==
    <<"n","a","m","e"," ","'","r","a","n","d","o","m","'"," ",
      "i","s"," ","n","o","t"," ","d","e","f","i","n","e","d">>

RateLimitMsg == <<"4","2","9"," ","T","o","o"," ","M","a","n","y">>
TimeoutMsg == <<"R","e","a","d"," ","t","i","m","e","d"," ","o","u","t">>
OtherMsg == <<"K","e","y","E","r","r","o","r">>

----------------------------------------------------------------------------
(* Python values *)

PyNone == [t |-> "NoneType", v |-> 0]
PyStr == [t |-> "str", v |-> 0]
PyNum(x) == [t |-> "float", v |-> x]

IsNumber(x) == x.t \in {"int", "float"}

PegValues == {PyNone, PyStr, PyNum(-50), PyNum(0), PyNum(120), PyNum(150)}
RoeValues == {PyNone, PyStr, PyNum(150), PyNum(200)}
DeValues == {PyNone, PyStr, PyNum(500), PyNum(1000)}

Dict(n, sym, peg, roe, de) ==
    [t |-> "dict", len |-> n, symbol |-> sym,
     pegRatio |-> peg, returnOnEquity |-> roe, debtToEquity |-> de]

Payloads ==
    {Dict(4, PyStr, peg, roe, de) : peg \in PegValues, roe \in RoeValues, de \in DeValues}

EmptyDict == Dict(0, PyNone, PyNone, PyNone, PyNone)
NoSymbolDict == Dict(1, PyNone, PyNone, PyNone, PyNum(500))

----------------------------------------------------------------------------
(* Module namespace *)

\* The namespace main.py would have with `import random` among its imports:
\* the one in which line 61 returns a pacing delay and fetch_stock reaches the
\* upstream. SpecRetry, SpecFetched and SpecReport start from it.
ImportedNamesWithRandom ==
    {"random", "os", "time", "json", "smtplib", "datetime", "pd", "yf", "gspread",
     "requests", "genai", "MIMEText"}

\* lines 1-12: the names the module binds before fetch_stock runs; `random` is
\* not among them, so line 61 raises NameError
ImportedNames ==
    {"os", "time", "json", "smtplib", "datetime", "pd", "yf", "gspread",
     "requests", "genai", "MIMEText"}

NameBound(n) == n \in names

----------------------------------------------------------------------------
(* The upstream: what `stock.info` does when it is evaluated *)

Outcomes == {"OK", "EMPTY_DICT", "NO_SYMBOL", "HTTP_429", "TIMEOUT", "ERROR"}

Returns(d) == [raises |-> FALSE, msg |-> <<>>, info |-> d]
Raises(m) == [raises |-> TRUE, msg |-> m, info |-> PyNone]

Responses(o) ==
    CASE o = "OK" -> {Returns(p) : p \in Payloads}
      [] o = "EMPTY_DICT" -> {Returns(EmptyDict)}
      [] o = "NO_SYMBOL" -> {Returns(NoSymbolDict)}
      [] o = "HTTP_429" -> {Raises(RateLimitMsg)}
      [] o = "TIMEOUT" -> {Raises(TimeoutMsg)}
      [] o = "ERROR" -> {Raises(OtherMsg)}

----------------------------------------------------------------------------
(* fetch_stock *)

\* observable effects: the prints of lines 57, 74 and 86, the time.sleep calls
\* (tagged with their line) and the evaluation of stock.info
AttemptEv(att) == [ev |-> "attempt", at |-> 57, d |-> att + 1, msg |-> <<>>]
SleepEv(line, d) == [ev |-> "sleep", at |-> line, d |-> d, msg |-> <<>>]
GetEv == [ev |-> "get", at |-> 70, d |-> 0, msg |-> <<>>]
WarnEv(att) == [ev |-> "warning", at |-> 74, d |-> att + 1, msg |-> <<>>]
ExceptEv(att, m) == [ev |-> "except", at |-> 86, d |-> att + 1, msg |-> m]

Continue(events) == [events |-> events, ctl |-> "continue", ret |-> PyNone]
Return(events, value) == [events |-> events, ctl |-> "return", ret |-> value]

WithPrefix(pre, r) == [r EXCEPT !.events = pre \o r.events]

\* ExceptBranch giving up at the first error that is not a rate limit
ExceptBranchNoRetry(att, error_msg) ==
    WithPrefix(<<ExceptEv(att, error_msg)>>,
               IF Contains(error_msg, Code429)
               THEN Continue(<<SleepEv(92, RateBackoffBase * (att + 1))>>)
               ELSE Return(<<>>, PyNone))

\* ExceptBranch handing back an empty dict, not None, when the last attempt failed
ExceptBranchReturnsDict(att, error_msg) ==
    WithPrefix(<<ExceptEv(att, error_msg)>>,
               IF Contains(error_msg, Code429)
               THEN Continue(<<SleepEv(92, RateBackoffBase * (att + 1))>>)
               ELSE IF att < MaxRetries - 1
                    THEN Continue(<<SleepEv(96, ErrorDelay)>>)
                    ELSE Return(<<>>, EmptyDict))

\* ExceptBranch with a wait of 5 * n after attempt n for the other errors
ExceptBranchLinear(att, error_msg) ==
    WithPrefix(<<ExceptEv(att, error_msg)>>,
               IF Contains(error_msg, Code429)
               THEN Continue(<<SleepEv(92, RateBackoffBase * (att + 1))>>)
               ELSE IF att < MaxRetries - 1
                    THEN Continue(<<SleepEv(96, ErrorDelay * (att + 1))>>)
                    ELSE Return(<<>>, PyNone))

\* lines 84-99
ExceptBranch(att, error_msg) ==
    WithPrefix(<<ExceptEv(att, error_msg)>>,
               IF Contains(error_msg, Code429)
               THEN Continue(<<SleepEv(92, RateBackoffBase * (att + 1))>>)
               ELSE IF att < MaxRetries - 1
                    THEN Continue(<<SleepEv(96, ErrorDelay)>>)
                    ELSE Return(<<>>, PyNone))

\* lines 72-82
Falsy(d) == d = PyNone \/ (d.t = "dict" /\ d.len = 0)

\* CheckData sleeping after the warning of the last attempt too
CheckDataAlwaysSleeps(att, d) ==
    IF Falsy(d) \/ d.symbol = PyNone
    THEN WithPrefix(<<WarnEv(att)>>, Continue(<<SleepEv(77, EmptyDelay)>>))
    ELSE Return(<<>>, d)

CheckData(att, d) ==
    IF Falsy(d) \/ d.symbol = PyNone
    THEN WithPrefix(<<WarnEv(att)>>,
                    IF att < MaxRetries - 1
                    THEN Continue(<<SleepEv(77, EmptyDelay)>>)
                    ELSE Return(<<>>, PyNone))
    ELSE Return(<<>>, d)

\* lines 63-82, once random.uniform has returned sleep_time
PacedGet(att, sleep_time, resp) ==
    WithPrefix(<<SleepEv(63, sleep_time), GetEv>>,
               IF resp.raises THEN ExceptBranch(att, resp.msg)
               ELSE CheckData(att, resp.info))

\* what becomes of one pass through the for body
Finish(r) ==
    /\ log' = log \o r.events
    /\ IF r.ctl = "return"
       THEN /\ info' = r.ret
            /\ pc' = "fetched"
            /\ attempt' = attempt
       ELSE /\ info' = info
            /\ pc' = pc
            /\ attempt' = attempt + 1

\* lines 55-99: one iteration of the for statement, or its exhaustion
FetchAttempt ==
    /\ pc = "fetch_stock"
    /\ UNCHANGED runVars
    /\ UNCHANGED <<portfolio, row, ticker, score, analysis_results,
                   successful_fetches, uncaught>>
    /\ IF attempt >= MaxRetries
       THEN /\ info' = PyNone
            /\ pc' = "fetched"
            /\ UNCHANGED <<attempt, log, offered>>
       ELSE \E o \in Outcomes :
              /\ offered' = Append(offered, o)
              /\ IF NameBound("random")
                 THEN \E sleep_time \in PacingLo..PacingHi, resp \in Responses(o) :
                         Finish(WithPrefix(<<AttemptEv(attempt)>>,
                                           PacedGet(attempt, sleep_time, resp)))
                 ELSE Finish(WithPrefix(<<AttemptEv(attempt)>>,
                                        ExceptBranch(attempt, NameErrorMsg)))

----------------------------------------------------------------------------
(* Scoring block and result lines *)

StatusList == <<"SELL", "HOLD", "BUY", "STRONG BUY">>

Min(a, b) == IF a < b THEN a ELSE b

\* a comparison of x with a number raises TypeError unless x is a number
CmpRaises(x) == ~IsNumber(x)

\* ScoreBlock with a missing debtToEquity defaulted to 0, which passes its rule
ScoreBlockSentinel(d) ==
    LET peg == d.pegRatio
        roe == d.returnOnEquity
        de_ratio == IF d.debtToEquity = PyNone THEN PyNum(0) ELSE d.debtToEquity
        pegRaises == peg # PyNone /\ CmpRaises(peg)
        pegHit == peg # PyNone /\ IsNumber(peg) /\ peg.v # 0 /\ peg.v < PegLimit
        s1 == IF pegHit THEN 1 ELSE 0
        roeRaises == roe # PyNone /\ CmpRaises(roe)
        roeHit == roe # PyNone /\ IsNumber(roe) /\ roe.v > RoeLimit
        s2 == s1 + (IF roeHit THEN 1 ELSE 0)
        deRaises == CmpRaises(de_ratio)
        deHit == IsNumber(de_ratio) /\ de_ratio.v < DeLimit
        s3 == s2 + (IF deHit THEN 1 ELSE 0)
    IN  IF pegRaises THEN [raised |-> TRUE, score |-> 0]
        ELSE IF roeRaises THEN [raised |-> TRUE, score |-> s1]
        ELSE IF deRaises THEN [raised |-> TRUE, score |-> s2]
        ELSE [raised |-> FALSE, score |-> s3]

\* lines 122-128, evaluated left to right with short-circuit `and`
ScoreBlock(d) ==
    LET peg == d.pegRatio
        roe == d.returnOnEquity
        de_ratio == d.debtToEquity
        pegRaises == peg # PyNone /\ CmpRaises(peg)
        pegHit == peg # PyNone /\ IsNumber(peg) /\ peg.v # 0 /\ peg.v < PegLimit
        s1 == IF pegHit THEN 1 ELSE 0
        roeRaises == roe # PyNone /\ CmpRaises(roe)
        roeHit == roe # PyNone /\ IsNumber(roe) /\ roe.v > RoeLimit
        s2 == s1 + (IF roeHit THEN 1 ELSE 0)
        deRaises == de_ratio # PyNone /\ CmpRaises(de_ratio)
        deHit == de_ratio # PyNone /\ IsNumber(de_ratio) /\ de_ratio.v < DeLimit
        s3 == s2 + (IF deHit THEN 1 ELSE 0)
    IN  IF pegRaises THEN [raised |-> TRUE, score |-> 0]
        ELSE IF roeRaises THEN [raised |-> TRUE, score |-> s1]
        ELSE IF deRaises THEN [raised |-> TRUE, score |-> s2]
        ELSE [raised |-> FALSE, score |-> s3]

Digit(n) == <<"0", "1", "2", "3", "4", "5", "6", "7", "8", "9">>[n + 1]

RECURSIVE Digits(_)
Digits(n) == IF n < 10 THEN <<Digit(n)>> ELSE Append(Digits(n \div 10), Digit(n % 10))

RECURSIVE Pow10(_)
Pow10(k) == IF k = 0 THEN 1 ELSE 10 * Pow10(k - 1)

RECURSIVE PadLeft(_, _)
PadLeft(s, k) == IF Len(s) >= k THEN s ELSE PadLeft(<<"0">> \o s, k)

Abs(x) == IF x < 0 THEN -x ELSE x

\* f"{x:.kf}" of the number x = v / 10^k
Fixed(v, k) ==
    (IF v < 0 THEN <<"-">> ELSE <<>>)
        \o Digits(Abs(v) \div Pow10(k)) \o <<".">> \o PadLeft(Digits(Abs(v) % Pow10(k)), k)

NA == <<"N", "/", "A">>

\* lines 135-140
PegStr(peg) == IF IsNumber(peg) THEN Fixed(peg.v, 2) ELSE NA
RoePctStr(roe) == IF IsNumber(roe) THEN Fixed(roe.v, 1) \o <<"%">> ELSE NA
DeStr(de_ratio) == IF IsNumber(de_ratio) THEN Fixed(de_ratio.v, 1) ELSE NA

\* line 113
ErrorLine(tk) ==
    [kind |-> "error", ticker |-> tk, status |-> "ERROR - Could not get data",
     peg |-> <<>>, roe |-> <<>>, de |-> <<>>]

\* lines 131-144
ScoredLine(tk, sc, d) ==
    [kind |-> "scored", ticker |-> tk, status |-> StatusList[Min(sc, MaxScoreIndex) + 1],
     peg |-> PegStr(d.pegRatio), roe |-> RoePctStr(d.returnOnEquity),
     de |-> DeStr(d.debtToEquity)]

----------------------------------------------------------------------------
(* The per-ticker loop, lines 105-149 *)

\* lines 105-108: a row whose stripped ticker is empty is skipped
SkipBlank ==
    /\ pc = "loop"
    /\ UNCHANGED runVars
    /\ row < Len(portfolio)
    /\ Strip(portfolio[row + 1]) = <<>>
    /\ row' = row + 1
    /\ ticker' = Strip(portfolio[row + 1])
    /\ UNCHANGED <<portfolio, pc, attempt, info, score, analysis_results,
                   successful_fetches, uncaught, log, offered>>

\* CallFetch with one attempt counter shared by all tickers
CallFetchKeepsAttempt ==
    /\ pc = "loop"
    /\ UNCHANGED runVars
    /\ row < Len(portfolio)
    /\ Strip(portfolio[row + 1]) # <<>>
    /\ row' = row + 1
    /\ ticker' = Strip(portfolio[row + 1])
    /\ pc' = "fetch_stock"
    /\ attempt' = attempt
    /\ log' = <<>>
    /\ offered' = <<>>
    /\ UNCHANGED <<portfolio, info, score, analysis_results, successful_fetches,
                   uncaught>>

\* lines 105-110: the call of fetch_stock(ticker)
CallFetch ==
    /\ pc = "loop"
    /\ UNCHANGED runVars
    /\ row < Len(portfolio)
    /\ Strip(portfolio[row + 1]) # <<>>
    /\ row' = row + 1
    /\ ticker' = Strip(portfolio[row + 1])
    /\ pc' = "fetch_stock"
    /\ attempt' = 0
    /\ log' = <<>>
    /\ offered' = <<>>
    /\ UNCHANGED <<portfolio, info, score, analysis_results, successful_fetches,
                   uncaught>>

\* Record that leaves a failed ticker out of analysis_results
RecordDropsFailed ==
    /\ pc = "fetched"
    /\ UNCHANGED runVars
    /\ log' = <<>>
    /\ offered' = <<>>
    /\ UNCHANGED <<portfolio, row, ticker, attempt, info>>
    /\ IF info = PyNone
       THEN /\ pc' = "loop"
            /\ UNCHANGED <<score, analysis_results, successful_fetches, uncaught>>
       ELSE LET s == ScoreBlock(info)
            IN  /\ score' = s.score
                /\ IF s.raised
                   THEN /\ pc' = "exit"
                        /\ uncaught' = "TypeError"
                        /\ UNCHANGED <<analysis_results, successful_fetches>>
                   ELSE /\ analysis_results' =
                              Append(analysis_results, ScoredLine(ticker, s.score, info))
                        /\ successful_fetches' = successful_fetches + 1
                        /\ pc' = "loop"
                        /\ UNCHANGED uncaught

\* Record without the `info is None` test: a failed fetch is scored as a payload
\* with every indicator missing
RecordScoresFailure ==
    /\ pc = "fetched"
    /\ UNCHANGED runVars
    /\ log' = <<>>
    /\ offered' = <<>>
    /\ UNCHANGED <<portfolio, row, ticker, attempt, info>>
    /\ LET d == IF info = PyNone THEN EmptyDict ELSE info
           s == ScoreBlock(d)
       IN  /\ score' = s.score
           /\ IF s.raised
              THEN /\ pc' = "exit"
                   /\ uncaught' = "TypeError"
                   /\ UNCHANGED <<analysis_results, successful_fetches>>
              ELSE /\ analysis_results' =
                         Append(analysis_results, ScoredLine(ticker, s.score, d))
                   /\ successful_fetches' = successful_fetches + 1
                   /\ pc' = "loop"
                   /\ UNCHANGED uncaught

\* lines 112-145
Record ==
    /\ pc = "fetched"
    /\ UNCHANGED runVars
    /\ log' = <<>>
    /\ offered' = <<>>
    /\ UNCHANGED <<portfolio, row, ticker, attempt, info>>
    /\ IF info = PyNone
       THEN /\ analysis_results' = Append(analysis_results, ErrorLine(ticker))
            /\ pc' = "loop"
            /\ UNCHANGED <<score, successful_fetches, uncaught>>
       ELSE LET s == ScoreBlock(info)
            IN  /\ score' = s.score
                /\ IF s.raised
                   THEN /\ pc' = "exit"
                        /\ uncaught' = "TypeError"
                        /\ UNCHANGED <<analysis_results, successful_fetches>>
                   ELSE /\ analysis_results' =
                              Append(analysis_results, ScoredLine(ticker, s.score, info))
                        /\ successful_fetches' = successful_fetches + 1
                        /\ pc' = "loop"
                        /\ UNCHANGED uncaught

\* lines 105, 148-149: the loop is over
LoopEnd ==
    /\ pc = "loop"
    /\ UNCHANGED runVars
    /\ row = Len(portfolio)
    /\ IF analysis_results = <<>>
       THEN pc' = "exit" /\ uncaught' = "RuntimeError"
       ELSE pc' = "report" /\ UNCHANGED uncaught
    /\ UNCHANGED <<portfolio, row, ticker, attempt, info, score, analysis_results,
                   successful_fetches, log, offered>>

----------------------------------------------------------------------------
(* Configuration checks, lines 19-43 *)

RequiredCols == {"Ticker", "Shares", "Avg_Cost"}

\* The header sets a sheet can come with. A sheet without data rows gives
\* get_all_records() = [] and pd.DataFrame([]) has no columns at all.
ColumnSets(sheet) ==
    IF sheet = <<>> THEN {{}}
    ELSE {RequiredCols, RequiredCols \cup {"Notes"}}
             \cup {RequiredCols \ {c} : c \in RequiredCols}

\* what the statements after the per-ticker loop never assign
loopVars == <<portfolio, row, ticker, attempt, info, score, analysis_results,
              successful_fetches, log, offered, columns, names>>

\* lines 19-43: os.environ["GCP_CREDENTIALS_JSON"] and the column check
Config ==
    /\ pc = "config"
    /\ UNCHANGED <<loopVars, ai_summary, gen, sent>>
    /\ \E credentials \in BOOLEAN :
          IF ~credentials
          THEN /\ unset' = unset \cup {"GCP_CREDENTIALS_JSON"}
               /\ uncaught' = "KeyError"
               /\ pc' = "exit"
          ELSE /\ unset' = unset
               /\ IF RequiredCols \ columns # {}
                  THEN uncaught' = "ValueError" /\ pc' = "exit"
                  ELSE uncaught' = uncaught /\ pc' = "loop"

----------------------------------------------------------------------------
(* Text: a string as the sequence of the parts it was built from. A part   *)
(* carries its length in characters, the number of newlines in it, whether *)
(* a slice cut it short, and the result line it renders, if any.           *)

NoEntry ==
    [kind |-> "none", ticker |-> <<>>, status |-> "", peg |-> <<>>, roe |-> <<>>,
     de |-> <<>>]

Part(id, n, nl, e) == [id |-> id, n |-> n, nl |-> nl, cut |-> FALSE, e |-> e]

\* a text of n characters: the empty string has no parts
Text(id, n, nl) == IF n = 0 THEN <<>> ELSE <<Part(id, n, nl, NoEntry)>>

RECURSIVE TLen(_)
TLen(t) == IF t = <<>> THEN 0 ELSE Head(t).n + TLen(Tail(t))

\* t[:m]; the newlines left in a part that was cut are not tracked
RECURSIVE Take(_, _)
Take(t, m) ==
    IF t = <<>> \/ m <= 0 THEN <<>>
    ELSE IF Head(t).n <= m
         THEN <<Head(t)>> \o Take(Tail(t), m - Head(t).n)
         ELSE <<[Head(t) EXCEPT !.n = m, !.nl = 0, !.cut = TRUE]>>

\* t.replace("\n", "<br>"): each newline becomes four characters
Replace(t) == [i \in 1..Len(t) |-> [t[i] EXCEPT !.n = @ + 3 * t[i].nl, !.nl = 0]]

NumLen(k) == Len(Digits(k))

\* status_list of line 131 with the emoji and the space before each label
StatusLen(st) ==
    CASE st = "SELL" -> 6
      [] st = "HOLD" -> 6
      [] st = "BUY" -> 5
      [] st = "STRONG BUY" -> 12

\* len of the strings built at lines 113 and 142-144
LineLen(e) ==
    IF e.kind = "error" THEN Len(e.ticker) + 30
    ELSE 30 + Len(e.ticker) + StatusLen(e.status) + Len(e.peg) + Len(e.roe) + Len(e.de)

----------------------------------------------------------------------------
(* Report synthesis, lines 157-208 *)

\* len of the literal of lines 158-174
NoDataLen == 700

\* analysis_results[:8] of line 203
FallbackShown == 8

NoDataText == Text("no_data", NoDataLen, 16)

Prefix(s, k) == SubSeq(s, 1, Min(k, Len(s)))

\* FallbackText listing every result line
FallbackTextAll(s, n, results) ==
    <<Part("raw_head", 123 + NumLen(s) + NumLen(n), 4, NoEntry)>>
        \o [i \in 1..Len(results) |-> Part("li", 9 + LineLen(results[i]), 0, results[i])]
        \o <<Part("raw_foot", 95, 3, NoEntry)>>

\* lines 198-208: the summary built without the generator
FallbackText(s, n, results) ==
    <<Part("raw_head", 123 + NumLen(s) + NumLen(n), 4, NoEntry)>>
        \o [i \in 1..Len(Prefix(results, FallbackShown)) |->
               Part("li", 9 + LineLen(results[i]), 0, results[i])]
        \o <<Part("raw_foot", 95, 3, NoEntry)>>

\* what genai does when asked: it raises, or response.text is some string
GenTexts == {Text("generated", 0, 0), Text("generated", 120, 3), Text("generated", 900, 12)}
GenOutcomes ==
    {[raised |-> TRUE, text |-> <<>>]} \cup {[raised |-> FALSE, text |-> t] : t \in GenTexts}

NotAsked == [called |-> FALSE, raised |-> FALSE, text |-> <<>>]
Asked(g) == [called |-> TRUE, raised |-> g.raised, text |-> g.text]

\* Report asking the generator whatever the number of successes
ReportAlwaysAsks(s, n, results, key, g) ==
    IF ~key
    THEN [ai_summary |-> FallbackText(s, n, results), gen |-> NotAsked,
          unset |-> {"GEMINI_API_KEY"}]
    ELSE IF g.raised
         THEN [ai_summary |-> FallbackText(s, n, results), gen |-> Asked(g), unset |-> {}]
         ELSE [ai_summary |-> g.text, gen |-> Asked(g), unset |-> {}]

\* lines 157-208: s = successful_fetches, n = len(portfolio), key = whether
\* GEMINI_API_KEY is set, g = what the generator does if it is asked
Report(s, n, results, key, g) ==
    IF s = 0
    THEN [ai_summary |-> NoDataText, gen |-> NotAsked, unset |-> {}]
    ELSE IF ~key
         THEN [ai_summary |-> FallbackText(s, n, results), gen |-> NotAsked,
               unset |-> {"GEMINI_API_KEY"}]
         ELSE IF g.raised
              THEN [ai_summary |-> FallbackText(s, n, results), gen |-> Asked(g),
                    unset |-> {}]
              ELSE [ai_summary |-> g.text, gen |-> Asked(g), unset |-> {}]

Synthesize ==
    /\ pc = "report"
    /\ UNCHANGED <<loopVars, uncaught, sent>>
    /\ \E key \in BOOLEAN, g \in GenOutcomes :
          LET r == Report(successful_fetches, Len(portfolio), analysis_results, key, g)
          IN /\ ai_summary' = r.ai_summary
             /\ gen' = r.gen
             /\ unset' = unset \cup r.unset
    /\ pc' = "send_email"

----------------------------------------------------------------------------
(* Deliveries, lines 213-272 *)

\* 4000 of line 247
TelegramCeiling == 4000
\* 3800 of line 248
TelegramKeep == 3800
\* 800 of line 246
SummaryKeep == 800

Attempted(ch, status, text, shown) ==
    [ch |-> ch, status |-> status, text |-> text, shown |-> shown]

\* what the mail side does: a variable is unset, SMTP raises, or the mail goes out
EmailOutcomes ==
    {[status |-> "sent", lacks |-> {}], [status |-> "failed", lacks |-> {}]}
        \cup {[status |-> "failed", lacks |-> {v}] :
                 v \in {"EMAIL_USER", "EMAIL_TO", "EMAIL_PASS"}}

\* send_email letting the exception of a failed delivery escape
SendEmailUncaught ==
    /\ pc = "send_email"
    /\ UNCHANGED <<loopVars, ai_summary, gen>>
    /\ \E o \in EmailOutcomes :
          /\ sent' = Append(sent, Attempted("email", o.status, Replace(ai_summary), <<>>))
          /\ unset' = unset \cup o.lacks
          /\ IF o.status = "sent"
             THEN pc' = "send_telegram" /\ uncaught' = uncaught
             ELSE pc' = "exit" /\ uncaught' = "Exception"

\* lines 213-229: everything inside try / except Exception
SendEmail ==
    /\ pc = "send_email"
    /\ UNCHANGED <<loopVars, uncaught, ai_summary, gen>>
    /\ \E o \in EmailOutcomes :
          /\ sent' = Append(sent, Attempted("email", o.status, Replace(ai_summary), <<>>))
          /\ unset' = unset \cup o.lacks
    /\ pc' = "send_telegram"

\* lines 241-243
SummaryLine(s, n) ==
    Part("summary_line",
         19 + NumLen(s) + NumLen(n) + (IF s < n THEN 12 + NumLen(n - s) ELSE 0), 0,
         NoEntry)

Shown(s, n) == IF s < n THEN <<s, n, n - s>> ELSE <<s, n>>

\* lines 246-248
Message(s, n, summary) ==
    LET message ==
            <<Part("title", 27, 2, NoEntry), SummaryLine(s, n), Part("gap", 2, 2, NoEntry)>>
                \o Take(summary, SummaryKeep) \o <<Part("dots", 3, 0, NoEntry)>>
    IN IF TLen(message) > TelegramCeiling
       THEN Take(message, TelegramKeep) \o <<Part("truncated", 29, 2, NoEntry)>>
       ELSE message

\* what the Telegram side does: a variable is unset (the message is then never
\* built), the post raises, or the API answers 200 or another status
TelegramOutcomes ==
    {[status |-> st, lacks |-> {}] : st \in {"sent", "rejected", "failed"}}
        \cup {[status |-> "failed", lacks |-> {v}] :
                 v \in {"TELEGRAM_BOT_TOKEN", "TELEGRAM_CHAT_ID"}}

\* lines 234-264: everything inside try / except Exception
SendTelegram ==
    /\ pc = "send_telegram"
    /\ UNCHANGED <<loopVars, uncaught, ai_summary, gen>>
    /\ \E o \in TelegramOutcomes :
          /\ sent' = Append(sent,
                 IF o.lacks # {}
                 THEN Attempted("telegram", o.status, <<>>, <<>>)
                 ELSE Attempted("telegram", o.status,
                                Message(successful_fetches, Len(portfolio), ai_summary),
                                Shown(successful_fetches, Len(portfolio))))
          /\ unset' = unset \cup o.lacks
    /\ pc' = "finish"

\* line 272: the closing print
Finished ==
    /\ pc = "finish"
    /\ UNCHANGED <<loopVars, uncaught, ai_summary, gen, unset>>
    /\ sent' = Append(sent, Attempted("print", "finished", <<>>,
                                      <<successful_fetches, Len(portfolio)>>))
    /\ pc' = "done"

----------------------------------------------------------------------------
(* The program *)

\* nothing fetched, nothing recorded, nothing sent
Fresh ==
    /\ attempt = 0
    /\ info = PyNone
    /\ score = 0
    /\ analysis_results = <<>>
    /\ successful_fetches = 0
    /\ uncaught = "none"
    /\ log = <<>>
    /\ offered = <<>>
    /\ unset = {}
    /\ ai_summary = <<>>
    /\ gen = NotAsked
    /\ sent = <<>>

Init ==
    /\ portfolio \in Sheets
    /\ columns \in ColumnSets(portfolio)
    /\ names = ImportedNames
    /\ pc = "config"
    /\ row = 0
    /\ ticker = <<>>
    /\ Fresh

Next ==
    \/ Config \/ SkipBlank \/ CallFetch \/ FetchAttempt \/ Record \/ LoopEnd
    \/ Synthesize \/ SendEmail \/ SendTelegram \/ Finished

Spec == Init /\ [][Next]_vars

\* The scoring block applied to every payload: the program right after
\* fetch_stock has handed a payload back for the first row.
InitFetched ==
    /\ portfolio \in {s \in Sheets : Len(s) >= 1 /\ Strip(s[1]) # <<>>}
    /\ row = 1
    /\ pc = "fetched"
    /\ ticker = Strip(portfolio[1])
    /\ attempt = 0
    /\ info \in Payloads
    /\ score = 0
    /\ analysis_results = <<>>
    /\ successful_fetches = 0
    /\ uncaught = "none"
    /\ log = <<AttemptEv(0), SleepEv(63, PacingLo), GetEv>>
    /\ offered = <<"OK">>
    /\ columns = RequiredCols
    /\ names = ImportedNamesWithRandom
    /\ unset = {}
    /\ ai_summary = <<>>
    /\ gen = NotAsked
    /\ sent = <<>>

NextFetched == Record \/ LoopEnd

SpecFetched == InitFetched /\ [][NextFetched]_vars

\* fetch_stock in a namespace where `random` resolves: lines 55-99 applied to
\* every sequence of upstream behaviours, for a one-row sheet.
InitRetry ==
    /\ portfolio \in {s \in Sheets : Len(s) = 1 /\ Strip(s[1]) # <<>>}
    /\ columns = RequiredCols
    /\ names = ImportedNamesWithRandom
    /\ pc = "fetch_stock"
    /\ row = 1
    /\ ticker = Strip(portfolio[1])
    /\ Fresh

NextRetry == FetchAttempt

SpecRetry == InitRetry /\ [][NextRetry]_vars

\* The report synthesis and the deliveries applied to every shape of result
\* list: the program right after the per-ticker loop, for sheets of 1 to
\* MaxResults tickers of which none, all, every other one or only the last
\* one was fetched.
MaxResults == 9

SampleTicker(i) == <<"T">> \o Digits(i)
SampleInfo == Dict(4, PyStr, PyNum(120), PyNum(200), PyNum(500))

ResultPatterns == {"none", "all", "odd", "last"}
Fetched(pattern, i, k) ==
    CASE pattern = "none" -> FALSE
      [] pattern = "all" -> TRUE
      [] pattern = "odd" -> i % 2 = 1
      [] pattern = "last" -> i = k

ResultList(pattern, k) ==
    [i \in 1..k |-> IF Fetched(pattern, i, k)
                    THEN ScoredLine(SampleTicker(i), ScoreBlock(SampleInfo).score, SampleInfo)
                    ELSE ErrorLine(SampleTicker(i))]

Scored(results) == SelectSeq(results, LAMBDA e : e.kind = "scored")

InitReport ==
    /\ \E k \in 1..MaxResults, pattern \in ResultPatterns :
          /\ portfolio = [i \in 1..k |-> SampleTicker(i)]
          /\ analysis_results = ResultList(pattern, k)
    /\ successful_fetches = Len(Scored(analysis_results))
    /\ row = Len(portfolio)
    /\ ticker = portfolio[row]
    /\ pc = "report"
    /\ columns = RequiredCols
    /\ names = ImportedNamesWithRandom
    /\ attempt = 0
    /\ info = PyNone
    /\ score = 0
    /\ uncaught = "none"
    /\ log = <<>>
    /\ offered = <<>>
    /\ unset = {}
    /\ ai_summary = <<>>
    /\ gen = NotAsked
    /\ sent = <<>>

NextReport == Synthesize \/ SendEmail \/ SendTelegram \/ Finished

SpecReport == InitReport /\ [][NextReport]_vars

----------------------------------------------------------------------------
(* Observations the properties are stated on *)

Events(name) == SelectSeq(log, LAMBDA e : e.ev = name)
Count(name) == Len(Events(name))
PacingSleeps == SelectSeq(log, LAMBDA e : e.ev = "sleep" /\ e.at = 63)
BackoffSleeps == SelectSeq(log, LAMBDA e : e.ev = "sleep" /\ e.at # 63)
Durations(s) == [i \in 1..Len(s) |-> s[i].d]

NonBlank(c) == \E i \in 1..Len(c) : c[i] # " "
TickerRows == SelectSeq(portfolio, NonBlank)

LoopDone ==
    \/ pc = "loop" /\ row = Len(portfolio)
    \/ pc \in {"report", "send_email", "send_telegram", "finish", "done"}
    \/ pc = "exit" /\ uncaught = "RuntimeError"

LastEntry(results) == results[Len(results)]

\* every attempt of the call ended in the warning of line 74 or the error of line 86
AllAttemptsFailed ==
    /\ Count("attempt") > 0
    /\ Count("except") + Count("warning") = Count("attempt")

FailureKind(e) ==
    IF e.ev = "warning" THEN "EMPTY_RESPONSE"
    ELSE IF e.msg = RateLimitMsg THEN "RATE_LIMITED"
    ELSE IF e.msg = TimeoutMsg THEN "TIMEOUT"
    ELSE "OTHER"

Failures == SelectSeq(log, LAMBDA e : e.ev \in {"except", "warning"})

Labels == <<"SELL", "HOLD", "BUY", "STRONG BUY">>
Rank(l) == CHOOSE i \in 1..Len(Labels) : Labels[i] = l

\* the rules of the scoring engine, as the specification words them
Known(x) == x # PyNone
SatisfiedRules(d) ==
    {r \in {"peg", "roe", "de"} :
        CASE r = "peg" -> Known(d.pegRatio) /\ d.pegRatio.t # "str"
                          /\ d.pegRatio.v # 0 /\ d.pegRatio.v * 10 < 15 * 100
          [] r = "roe" -> Known(d.returnOnEquity) /\ d.returnOnEquity.t # "str"
                          /\ d.returnOnEquity.v * 100 > 15 * 1000
          [] r = "de" -> Known(d.debtToEquity) /\ d.debtToEquity.t # "str"
                         /\ d.debtToEquity.v < 100 * 10}

Indicators(d) == {d.pegRatio, d.returnOnEquity, d.debtToEquity}
HasNonNumeric(d) == \E x \in Indicators(d) : x.t = "str"

----------------------------------------------------------------------------
(* C1 *)

\* C1, as stated: once the per-ticker loop is over, analysis_results holds exactly
\* one entry for every portfolio row, so its length is the number of rows.
C1_OneEntryPerRow == LoopDone => Len(analysis_results) = Len(portfolio)

\* C1, amended: once the per-ticker loop is over, analysis_results holds exactly one
\* entry (scored or could-not-fetch) for every row whose stripped Ticker is not
\* empty, in row order; rows with a blank Ticker contribute no entry.
C1_OneEntryPerTicker ==
    LoopDone =>
        /\ Len(analysis_results) = Len(TickerRows)
        /\ \A i \in 1..Len(TickerRows) :
              /\ analysis_results[i].kind \in {"scored", "error"}
              /\ analysis_results[i].ticker = Strip(TickerRows[i])

C1_Witness ==
    /\ pc = "report"
    /\ Len(analysis_results) >= 1
    /\ Len(analysis_results) < Len(portfolio)

(* C2 *)

\* C2: a call of fetch_stock makes at most max_retries attempts, each with at most
\* one upstream call, and returns either a payload or the failure value; every call
\* starts at attempt 1, and a call that fails has had all max_retries attempts,
\* whatever happened to the tickers before it.
C2_RetryBudget ==
    /\ Count("attempt") <= MaxRetries
    /\ Count("get") <= Count("attempt")
    /\ log # <<>> => log[1] = AttemptEv(0)
    /\ pc = "fetched" => (info = PyNone \/ info \in Payloads)
    /\ (pc = "fetched" /\ info = PyNone) => Count("attempt") = MaxRetries

C2_Witness ==
    /\ pc = "fetched"
    /\ row = 2
    /\ Len(analysis_results) = 1
    /\ analysis_results[1].kind = "error"
    /\ info = PyNone
    /\ Count("attempt") = MaxRetries

(* C3 *)

RetryableOutcomes == {"EMPTY_DICT", "NO_SYMBOL", "HTTP_429", "TIMEOUT"}

\* C3: if the upstream has a usable payload ready on attempt k, after k-1 retryable
\* failures, fetch_stock returns that payload after exactly k attempts and k
\* upstream calls.
C3_FirstGoodResponseReturned ==
    pc = "fetched" =>
        \A k \in 1..Len(offered) :
            (offered[k] = "OK" /\ \A j \in 1..(k - 1) : offered[j] \in RetryableOutcomes)
                => /\ info \in Payloads
                   /\ Count("attempt") = k
                   /\ Count("get") = k

(* C4 *)

\* C4, as stated: an attempt that fails with an unexpected error (not a rate limit,
\* not a timeout, not an empty response) is the end of the call: no sleep, no
\* further attempt and no upstream call follow it.
C4_OtherFailsImmediately ==
    \A i \in 1..Len(log) :
        (log[i].ev = "except" /\ FailureKind(log[i]) = "OTHER")
            => \A j \in (i + 1)..Len(log) : log[j].ev \notin {"sleep", "attempt", "get"}

\* C4, amended: an attempt that fails with an exception whose message does not
\* contain "429" is followed, when it is not the last permitted attempt, by a
\* sleep of 5 and then the next attempt; on the last permitted attempt the call
\* returns failure without sleeping.
C4_UnexpectedErrorRetried ==
    \A i \in 1..Len(log) :
        (log[i].ev = "except" /\ FailureKind(log[i]) # "RATE_LIMITED")
            => IF log[i].d < MaxRetries
               THEN /\ i < Len(log)
                    /\ log[i + 1] = SleepEv(96, 5)
                    /\ i + 1 = Len(log) => pc = "fetch_stock"
                    /\ i + 2 <= Len(log) => log[i + 2] = AttemptEv(log[i].d)
               ELSE /\ i = Len(log)
                    /\ pc = "fetched"
                    /\ info = PyNone

C4_Witness ==
    /\ Len(log) >= 4
    /\ log[2] = ExceptEv(0, NameErrorMsg)
    /\ log[3] = SleepEv(96, 5)
    /\ log[4] = AttemptEv(1)

(* C5 *)

\* C5: when the upstream rate-limits all 3 attempts of a call, the backoff sleeps
\* of the call are exactly 15, 30, 45 in that order (15 * n after attempt n) and
\* the call returns failure.
C5_RateLimitBackoff ==
    (pc = "fetched" /\ offered = <<"HTTP_429", "HTTP_429", "HTTP_429">>)
        => /\ Durations(BackoffSleeps) = <<15, 30, 45>>
           /\ info = PyNone

(* C6 *)

\* C6, as stated: when every attempt of a call failed, the value returned is a
\* Failure carrying the kind of the last failure.
C6_FailureCarriesLastKind ==
    (pc = "fetched" /\ AllAttemptsFailed)
        => info = [t |-> "Failure", kind |-> FailureKind(Failures[Len(Failures)])]

\* C6, amended: when every attempt of a call failed, the value returned is None,
\* whatever the kind of the last failure; the kind is only printed.
C6_FailureIsNone == (pc = "fetched" /\ AllAttemptsFailed) => info = PyNone

C6_Witness ==
    /\ pc = "fetched"
    /\ AllAttemptsFailed
    /\ Count("attempt") = MaxRetries
    /\ FailureKind(Failures[Len(Failures)]) = "OTHER"

(* C7 *)

IsPacingSleep(e) == e.ev = "sleep" /\ e.at = 63 /\ e.d \in 3..7

\* C7: every attempt waits one pacing delay drawn from 3..7 and then calls the
\* upstream: pacing sleeps and upstream calls are equally many, and each upstream
\* call comes right after its completed pacing sleep.
C7_PacedUpstreamCalls ==
    /\ Len(PacingSleeps) = Count("get")
    /\ \A i \in 1..Len(log) :
          log[i].ev = "get" => (i > 1 /\ IsPacingSleep(log[i - 1]))
    /\ \A i \in 1..Len(log) :
          log[i].ev = "attempt"
              => /\ i + 2 <= Len(log)
                 /\ IsPacingSleep(log[i + 1])
                 /\ log[i + 2].ev = "get"

(* C8 *)

\* C8: a ticker whose fetch returned failure is not scored: exactly one
\* could-not-fetch entry is appended for it (never a SELL or other label),
\* successful_fetches and score are left alone, and the loop goes on.
C8_FailedFetchRecorded ==
    [][(pc = "fetched" /\ info = PyNone)
          => /\ Len(analysis_results') = Len(analysis_results) + 1
             /\ SubSeq(analysis_results', 1, Len(analysis_results)) = analysis_results
             /\ LastEntry(analysis_results').kind = "error"
             /\ LastEntry(analysis_results').ticker = ticker
             /\ \A i \in 1..Len(Labels) : LastEntry(analysis_results').status # Labels[i]
             /\ successful_fetches' = successful_fetches
             /\ score' = score
             /\ pc' = "loop"
             /\ uncaught' = "none"]_vars

C8_Witness ==
    /\ pc = "fetch_stock"
    /\ row = 2
    /\ Len(analysis_results) = 1
    /\ analysis_results[1].kind = "error"
    /\ successful_fetches = 0

(* C9 *)

\* C9: scoring a fetched payload whose indicators are numbers or missing yields
\* raw_score = number of satisfied rules (PEG known, non-zero, < 1.5; ROE known,
\* > 0.15; D/E known, < 100), in 0..3, and the label
\* [SELL, HOLD, BUY, STRONG BUY][min(raw_score, 3)], which never decreases as
\* raw_score grows.
C9_ScoreIsRuleCount ==
    [][(pc = "fetched" /\ info \in Payloads)
          => /\ ~HasNonNumeric(info) => pc' = "loop"
             /\ pc' = "loop"
                   => /\ score' = Cardinality(SatisfiedRules(info))
                      /\ score' \in 0..3
                      /\ LastEntry(analysis_results').kind = "scored"
                      /\ LastEntry(analysis_results').status = Labels[Min(score', 3) + 1]
                      /\ successful_fetches' = successful_fetches + 1
             /\ \A a, b \in 0..3 :
                   a <= b => Rank(StatusList[Min(a, MaxScoreIndex) + 1])
                                <= Rank(StatusList[Min(b, MaxScoreIndex) + 1])]_vars

C9_Witness ==
    /\ pc = "loop"
    /\ info = Dict(4, PyStr, PyNum(120), PyNum(200), PyNum(500))
    /\ score = 3
    /\ Len(analysis_results) = 1
    /\ analysis_results[1].status = "STRONG BUY"

(* C10 *)

SourceOf(t) ==
    IF t # <<>> /\ t[1].id = "no_data" THEN "FALLBACK_NO_DATA"
    ELSE IF t # <<>> /\ t[1].id = "raw_head" THEN "FALLBACK_RAW"
    ELSE "GENERATED"

Synthesized == pc \in {"send_email", "send_telegram", "finish", "done"}

\* C11: with zero successful fetches the report is the no-data fallback and the
\* generator is not asked; with a success and a generator that returns, the body
\* is the generator output verbatim; with a success and a generator that is
\* unavailable or raises, the report is the raw fallback; the run is not aborted.
C11_ReportSource ==
    Synthesized =>
        /\ uncaught = "none"
        /\ successful_fetches = 0
              => SourceOf(ai_summary) = "FALLBACK_NO_DATA" /\ ~gen.called
        /\ (successful_fetches > 0 /\ gen.called /\ ~gen.raised)
              => SourceOf(ai_summary) = "GENERATED" /\ ai_summary = gen.text
        /\ (successful_fetches > 0 /\ (~gen.called \/ gen.raised))
              => SourceOf(ai_summary) = "FALLBACK_RAW"
        /\ (successful_fetches > 0 /\ ~gen.called) => "GEMINI_API_KEY" \in unset

C11_Witness ==
    /\ pc = "done"
    /\ successful_fetches > 0
    /\ gen.called /\ ~gen.raised
    /\ TLen(gen.text) = 120
    /\ ai_summary = gen.text

(* C12 *)

Listed(t) == LET items == SelectSeq(t, LAMBDA part : part.id = "li")
             IN [i \in 1..Len(items) |-> items[i].e]

C14_BothChannelsAttempted ==
    /\ pc = "send_telegram" => Len(sent) = 1 /\ sent[1].ch = "email"
    /\ pc = "finish" => Len(sent) = 2 /\ sent[1].ch = "email" /\ sent[2].ch = "telegram"
    /\ pc = "done" => /\ Len(sent) = 3
                      /\ sent[1].ch = "email"
                      /\ sent[2].ch = "telegram"
                      /\ sent[3].ch = "print" /\ sent[3].status = "finished"
    /\ sent # <<>> => pc \in {"send_telegram", "finish", "done"} /\ uncaught = "none"

C14_Witness ==
    /\ pc = "done"
    /\ sent[1].ch = "email" /\ sent[1].status = "failed"
    /\ sent[2].ch = "telegram" /\ sent[2].status = "failed"
    /\ sent[3].ch = "print"

(* C15 *)

\* the characters of a Telegram message that come from the report body
BodyParts(text) ==
    SelectSeq(text, LAMBDA part :
                        part.id \notin {"title", "summary_line", "gap", "dots", "truncated"})

C16_NothingFatalAfterConfig ==
    /\ pc = "exit" => row = 0 /\ uncaught \in {"KeyError", "ValueError"}
    /\ uncaught # "none" => pc = "exit" /\ sent = <<>> /\ log = <<>>

(* C17 *)

\* C17: a run in which a required column or a required credential is missing
\* is aborted before the first fetch: it has no fetch attempt, no sleep, no
\* result and no delivery.
C17_ConfigErrorAbortsFirst ==
    (pc # "config" /\ (unset # {} \/ RequiredCols \ columns # {}))
        => /\ pc = "exit"
           /\ row = 0
           /\ log = <<>>
           /\ analysis_results = <<>>
           /\ sent = <<>>

(* C18 *)

FetchErrors(results) == SelectSeq(results, LAMBDA e : e.kind = "error")

\* C19: the failed count the Telegram summary line shows equals the number of
\* fetch-error entries of analysis_results, and the analyzed count it shows
\* equals the number of scored entries.
C19_ShownCountsMatchEntries ==
    \A i \in 1..Len(sent) :
        (sent[i].ch = "telegram" /\ sent[i].shown # <<>>)
            => /\ sent[i].shown[1] = Len(SelectSeq(analysis_results,
                                                   LAMBDA e : e.kind = "scored"))
               /\ (IF Len(sent[i].shown) = 3 THEN sent[i].shown[3] ELSE 0)
                     = Len(FetchErrors(analysis_results))

(* C20 *)

====
